---- MODULE Spec2Model ----
(***************************************************************************)
(* A model of media-organiser (src/src/python/main.py): the date-resolution *)
(* cascade (get_exif_date, get_image_date) and the "group" command          *)
(* (group_files, create_date_folder, safe_copy_file and its two checks).    *)
(*                                                                         *)
(* Strings that the program builds (folder names, file names, date keys)   *)
(* are TLA+ strings built with \o.  A metadata value that the program      *)
(* parses is a sequence of tokens, so that str.replace and the parser act  *)
(* on its structure.                                                       *)
(***************************************************************************)
EXTENDS Integers, Sequences, FiniteSets, TLC

VARIABLES
    pc,                \* position in group_files / in the resolver driver
    source,            \* source tree: the files under the source folder, in rglob order
    dry_run,           \* Config.dry_run
    move_files,        \* Config.move_files
    project_names,     \* the loaded mapping: DateKey -> label
    image_files,       \* the discovered files, in iteration order
    file_date_mapping, \* sequence of [file, date], insertion ordered
    idx,               \* position of the placement loop in file_date_mapping
    date_folder,       \* local of group_files: name of the date folder
    dest_file,         \* local of group_files: destination path
    srcFiles,          \* source tree: indices of image_files still on disk
    dirs,              \* destination tree: the folders under the root
    dstFiles,          \* destination tree: path -> content
    log,               \* the records written through logging
    out,               \* what click.echo wrote to standard output
    error,             \* the exception that ended the run, "" when none
    tree0,             \* history: destination tree when the current file's placement began
    probe,             \* resolver driver: the file handed to get_image_date
    resolved           \* resolver driver: what get_image_date returned

vars == <<pc, source, dry_run, move_files, project_names, image_files, file_date_mapping,
          idx, date_folder, dest_file, srcFiles, dirs, dstFiles, log, out, error,
          tree0, probe, resolved>>

----------------------------------------------------------------------------
(* Bounds *)

NumFiles == 2
MaxSize == 1
MaxFree == 2

----------------------------------------------------------------------------
(* Dates and date strings *)

\* A datetime: year, month, day and time of day, each as the text strftime prints.
DateTime(y, m, d, t) == [y |-> y, m |-> m, d |-> d, t |-> t]

NoDate == [y |-> "", m |-> "", d |-> "", t |-> ""]

Day1 == DateTime("2023", "05", "01", "10:00:00")
Day1Late == DateTime("2023", "05", "01", "18:30:00")
Day2 == DateTime("2023", "06", "01", "09:00:00")
BirthDate == DateTime("2022", "01", "03", "07:00:00")
NowDate == DateTime("2026", "11", "03", "12:00:00")

\* date.strftime('%Y%m%d')
strftime_Ymd(date) == date.y \o date.m \o date.d

\* image_date.replace(hour=0, minute=0, second=0, microsecond=0)
date_only_of(date) == [date EXCEPT !.t = "00:00:00"]

Years == {"2022", "2023"}
Months == {"01", "05", "06"}
Days == {"01", "03"}
Times == {"07:00:00", "09:00:00", "10:00:00", "18:30:00"}

\* str.replace(':', ' ', 2): the first two colon tokens become spaces.
RECURSIVE replace_colons(_, _)
replace_colons(s, n) ==
    IF s = <<>> \/ n = 0 THEN s
    ELSE IF Head(s) = ":" THEN <<" ">> \o replace_colons(Tail(s), n - 1)
    ELSE <<Head(s)>> \o replace_colons(Tail(s), n)

\* str.strip() on a token sequence: blanks at both ends go.
RECURSIVE lstrip(_)
lstrip(s) == IF s # <<>> /\ Head(s) = " " THEN lstrip(Tail(s)) ELSE s

RECURSIVE rstrip(_)
rstrip(s) ==
    IF s # <<>> /\ s[Len(s)] = " " THEN rstrip(SubSeq(s, 1, Len(s) - 1)) ELSE s

strip(s) == rstrip(lstrip(s))

\* dateutil's parser.parse: a date, or the exception it raises.  A date is
\* "Y M D T" or "Y-M-D T", optionally prefixed "UTC "; a colon-separated date
\* part is no date; a number too large for a C integer raises OverflowError;
\* anything else raises ParserError, a ValueError.
HugeNumber == "99999999999999999999"

parse(s) ==
    LET body == IF Len(s) >= 2 /\ s[1] = "UTC" /\ s[2] = " "
                THEN SubSeq(s, 3, Len(s)) ELSE s
    IN  IF /\ Len(body) = 7
           /\ body[1] \in Years /\ body[3] \in Months /\ body[5] \in Days
           /\ body[2] \in {" ", "-"} /\ body[4] = body[2]
           /\ body[6] = " " /\ body[7] \in Times
        THEN [ok |-> TRUE, exc |-> "",
              date |-> DateTime(body[1], body[3], body[5], body[7])]
        ELSE IF \E i \in 1..Len(body) : body[i] = HugeNumber
        THEN [ok |-> FALSE, exc |-> "OverflowError", date |-> NoDate]
        ELSE [ok |-> FALSE, exc |-> "ValueError", date |-> NoDate]

\* The text of a metadata date in the EXIF form YYYY:MM:DD HH:MM:SS ...
ExifText(date) == <<date.y, ":", date.m, ":", date.d, " ", date.t>>
\* ... and in the form MediaInfo reports, UTC YYYY-MM-DD HH:MM:SS.
MediaText(date) == <<"UTC", " ", date.y, "-", date.m, "-", date.d, " ", date.t>>

----------------------------------------------------------------------------
(* Files and their embedded metadata *)

\* str.lower() on the suffixes the model uses.
lower(ext) ==
    CASE ext = ".JPG" -> ".jpg"
      [] ext = ".MOV" -> ".mov"
      [] OTHER -> ext

RawExtensions == {".raf", ".gpr", ".raw", ".cr2", ".nef", ".arw"}
JpegExtensions == {".jpg", ".jpeg"}
VideoExtensions == {".mp4", ".mov", ".avi", ".mkv", ".wmv", ".flv", ".webm", ".m4v"}

\* Config.default().image_extensions
image_extensions == RawExtensions \cup JpegExtensions \cup VideoExtensions

\* What the libraries report for a file that holds no metadata of a family.
NoRaw == [opens |-> FALSE, datetime_original |-> <<>>]
NoImg == [opens |-> FALSE, exif_raises |-> FALSE, tags |-> <<>>]
NoVideo == [parses |-> FALSE, tracks |-> <<>>]

\* A file on disk: its name, its size, st_birthtime (NoDate: not available)
\* and what rawpy, PIL and pymediainfo find in it.
MediaFile(stem, suffix, size, birth, raw, img, video) ==
    [stem |-> stem, suffix |-> suffix, size |-> size, birth |-> birth,
     raw |-> raw, img |-> img, video |-> video]

\* The result of an extractor: a date, or None.
Some(date) == [found |-> TRUE, date |-> date]
None == [found |-> FALSE, date |-> NoDate]

\* date_fields of get_exif_date, in order of preference.
date_fields == <<"DateTimeOriginal", "DateTimeDigitized", "DateTime">>

\* The for loop of get_exif_date over the remaining fields.  A ValueError or
\* TypeError of the parser continues with the next field; any other exception
\* leaves the loop through the outer handler, and the function returns None.
RECURSIVE exif_scan(_, _)
exif_scan(tags, fields) ==
    IF fields = <<>> THEN None
    ELSE LET field == Head(fields)
         IN  IF field \in DOMAIN tags /\ tags[field] # <<>> /\ strip(tags[field]) # <<>>
             THEN LET r == parse(replace_colons(tags[field], 2))
                  IN  IF r.ok THEN Some(r.date)
                      ELSE IF r.exc \in {"ValueError", "TypeError"}
                      THEN exif_scan(tags, Tail(fields))
                      ELSE None
             ELSE exif_scan(tags, Tail(fields))

get_exif_date(img) ==
    IF img.exif_raises THEN None
    ELSE IF DOMAIN img.tags = {} THEN None
    ELSE exif_scan(img.tags, date_fields)

\* A mutation of video_fields: encoded_date after file_creation_date.
video_fields_swapped ==
    <<"file_creation_date", "tagged_date", "file_last_modification_date",
      "encoded_date", "file_last_modification_date__local",
      "file_creation_date__local", "other_file_creation_date",
      "other_file_last_modification_date">>

\* The field list of the video branch of get_image_date, in the order tried.
video_fields ==
    <<"encoded_date", "tagged_date", "file_last_modification_date",
      "file_creation_date", "file_last_modification_date__local",
      "file_creation_date__local", "other_file_creation_date",
      "other_file_last_modification_date">>

\* A track attribute: a string, or a list of strings.
StrValue(s) == [list |-> FALSE, items |-> <<s>>]
ListValue(items) == [list |-> TRUE, items |-> items]

\* Python truthiness of a track attribute.
truthy(value) == IF value.list THEN value.items # <<>> ELSE value.items[1] # <<>>

\* The inner for loop of the video branch: getattr(track, field, None), the
\* first element of a list, parser.parse; any exception continues.
RECURSIVE video_scan_fields(_, _)
video_scan_fields(track, fields) ==
    IF fields = <<>> THEN None
    ELSE LET field == Head(fields)
         IN  IF field \in DOMAIN track.attrs /\ truthy(track.attrs[field])
             THEN LET r == parse(track.attrs[field].items[1])
                  IN  IF r.ok THEN Some(r.date)
                      ELSE video_scan_fields(track, Tail(fields))
             ELSE video_scan_fields(track, Tail(fields))

\* The outer for loop of the video branch over media_info.tracks.
RECURSIVE video_scan_tracks(_)
video_scan_tracks(tracks) ==
    IF tracks = <<>> THEN None
    ELSE LET track == Head(tracks)
             r == IF track.track_type = "General"
                  THEN video_scan_fields(track, video_fields) ELSE None
         IN  IF r.found THEN r ELSE video_scan_tracks(Tail(tracks))

\* The fallback of get_image_date: st_birthtime, and the current time when
\* reading it raises.
creation_date_fallback(file, now) == IF file.birth # NoDate THEN file.birth ELSE now

get_image_date(file, now) ==
    LET ext == lower(file.suffix)
    IN  IF ext \in RawExtensions
        THEN IF file.raw.opens /\ file.raw.datetime_original # <<>>
                /\ parse(file.raw.datetime_original).ok
             THEN parse(file.raw.datetime_original).date
             ELSE creation_date_fallback(file, now)
        ELSE IF ext \in JpegExtensions
        THEN IF ~file.img.opens THEN now
             ELSE IF get_exif_date(file.img).found THEN get_exif_date(file.img).date
             ELSE creation_date_fallback(file, now)
        ELSE IF ext \in VideoExtensions
        THEN IF file.video.parses /\ video_scan_tracks(file.video.tracks).found
             THEN video_scan_tracks(file.video.tracks).date
             ELSE creation_date_fallback(file, now)
        ELSE creation_date_fallback(file, now)

----------------------------------------------------------------------------
(* The destination tree and the pre-flight checks *)

\* A destination tree: the folders under the root and the files in them.
Tree(folders, files) == [dirs |-> folders, files |-> files]

NoFiles == [p \in {} |-> 0]

\* Path arithmetic: directory / name, image_file.name.
join(directory, name) == directory \o "/" \o name
file_name(file) == file.stem \o file.suffix

\* has_enough_disk_space: src.stat().st_size against
\* shutil.disk_usage(dst.parent).free; an exception of either answers False.
has_enough_disk_space(src_exists, src_size, parent_exists, dst_free) ==
    src_exists /\ parent_exists /\ dst_free > src_size

\* can_write_to_directory: touch the probe file .write_test and unlink it.
\* The answer, and the files of the tree afterwards.
can_write_to_directory(directory, directory_exists, writable, files) ==
    IF ~(directory_exists /\ writable) THEN [ok |-> FALSE, files |-> files]
    ELSE LET test_file == join(directory, ".write_test")
             touched == IF test_file \in DOMAIN files THEN files
                        ELSE (test_file :> 0) @@ files
         IN  [ok |-> TRUE,
              files |-> [p \in DOMAIN touched \ {test_file} |-> touched[p]]]

\* shutil.copy2 / shutil.move of content to dst: whatever dst held is replaced.
write_file(files, dst, content) ==
    [p \in DOMAIN files \cup {dst} |-> IF p = dst THEN content ELSE files[p]]

----------------------------------------------------------------------------
(* Log records *)

Record(level, msg, src, dst) == [level |-> level, msg |-> msg, src |-> src, dst |-> dst]

----------------------------------------------------------------------------
(* group_files *)

\* A mutation of has_label: any entry counts, whatever its label.
has_label_any_entry(names, date_str) == date_str \in DOMAIN names

\* project_names.get(date_str) followed by "if not project_name: continue":
\* TRUE when the entry is there and its label is truthy.
has_label(names, date_str) == date_str \in DOMAIN names /\ names[date_str] # ""

\* date_folder.name of create_date_folder.
date_folder_name(date, project_name) == strftime_Ymd(date) \o "_" \o project_name

\* The while loop of group_files: the first suffixed path that does not exist.
RECURSIVE next_free_path(_, _, _, _)
next_free_path(folder, file, counter, files) ==
    LET candidate == join(folder, folder \o "_" \o file.stem \o "_"
                                   \o ToString(counter) \o file.suffix)
    IN  IF candidate \in DOMAIN files
        THEN next_free_path(folder, file, counter + 1, files)
        ELSE candidate

\* A mutation of pick_dest_file: the collision loop is left out.
pick_dest_file_unchecked(folder, file, files) ==
    join(folder, folder \o "_" \o file_name(file))

\* dest_file of group_files: the plain path, or the first free suffixed one.
pick_dest_file(folder, file, files) ==
    LET first == join(folder, folder \o "_" \o file_name(file))
    IN  IF first \in DOMAIN files THEN next_free_path(folder, file, 1, files)
        ELSE first

\* A mutation of resolve_loop_done: the first resolved date ends the loop.
resolve_loop_done_early(mapping, files) == Len(mapping) >= 1 \/ Len(files) = 0

\* The first for loop of group_files has gone through every discovered file.
resolve_loop_done(mapping, files) == Len(mapping) = Len(files)

\* get_image_files: the files of the tree whose lower-cased suffix is recognised.
RECURSIVE get_image_files(_, _)
get_image_files(tree, i) ==
    IF i > Len(tree) THEN <<>>
    ELSE (IF lower(tree[i].suffix) \in image_extensions THEN <<i>> ELSE <<>>)
         \o get_image_files(tree, i + 1)

\* A mutation of mkdir_date_folder: the folder is made in a dry run too.
mkdir_date_folder_always(dry, folders, folder) == folders \cup {folder}

\* "if not config.dry_run: date_folder.mkdir(exist_ok=True)" of create_date_folder.
mkdir_date_folder(dry, folders, folder) ==
    IF dry THEN folders ELSE folders \cup {folder}

\* A mutation of source_after_transfer: the source is unlinked in copy mode too.
source_after_transfer_unlink(move, sources, i) == sources \ {i}

\* The source tree after the transfer: shutil.move unlinks the source,
\* shutil.copy2 leaves it.
source_after_transfer(move, sources, i) == IF move THEN sources \ {i} ELSE sources

----------------------------------------------------------------------------
(* Inputs of a group run *)

\* A JPEG whose EXIF holds the given original-capture date.
Jpeg(stem, size, date) ==
    MediaFile(stem, ".jpg", size, BirthDate, NoRaw,
              [opens |-> TRUE, exif_raises |-> FALSE,
               tags |-> [f \in {"DateTimeOriginal"} |-> ExifText(date)]],
              NoVideo)

\* A file that is no media file.
Notes == MediaFile("notes", ".txt", 1, BirthDate, NoRaw, NoImg, NoVideo)

SourceFiles ==
    {Jpeg(stem, size, date) : stem \in {"a", "a_1"}, size \in 1..MaxSize,
                              date \in {Day1, Day2}} \cup {Notes}

SourceTrees == [1..NumFiles -> SourceFiles]

\* The mapping files: any of the two date keys may be missing, and the entry
\* of the first may hold an empty label.
MappingLabels ==
    [k \in {"20230501", "20230601"} |->
        IF k = "20230501" THEN {"Wedding", ""} ELSE {"Trip"}]

MappingFiles ==
    UNION {{m \in [S -> {"Wedding", "Trip", ""}] : \A k \in S : m[k] \in MappingLabels[k]} :
           S \in SUBSET {"20230501", "20230601"}}

\* The destination before the run: empty, or holding an earlier run's folder.
DestTrees ==
    {Tree({}, NoFiles),
     Tree({"20230501_Wedding"},
          ("20230501_Wedding/20230501_Wedding_a.jpg" :> 0))}

----------------------------------------------------------------------------
(* The group command as a state machine *)

InitGroup(dry_runs) ==
    /\ pc = "start"
    /\ source \in SourceTrees
    /\ dry_run \in dry_runs
    /\ move_files \in BOOLEAN
    /\ project_names = NoFiles
    /\ image_files = <<>>
    /\ file_date_mapping = <<>>
    /\ idx = 1
    /\ date_folder = ""
    /\ dest_file = ""
    /\ srcFiles = 1..NumFiles
    /\ \E t \in DestTrees : dirs = t.dirs /\ dstFiles = t.files
    /\ log = <<>>
    /\ out = <<>>
    /\ error = ""
    /\ tree0 = Tree(dirs, dstFiles)
    /\ probe = Notes
    /\ resolved = NoDate

\* Lines 337-343: the default configuration with the --move flag, the mapping
\* file loaded, the source tree scanned.
Start ==
    /\ pc = "start"
    /\ \E m \in MappingFiles : project_names' = m
    /\ image_files' = get_image_files(source, 1)
    /\ pc' = IF resolve_loop_done(file_date_mapping, image_files')
             THEN "place" ELSE "resolve"
    /\ UNCHANGED <<source, dry_run, move_files, file_date_mapping, idx, date_folder,
                   dest_file, srcFiles, dirs, dstFiles, log, out, error, tree0,
                   probe, resolved>>

\* Lines 345-350: one iteration of the first loop.
ResolveDate ==
    /\ pc = "resolve"
    /\ ~resolve_loop_done(file_date_mapping, image_files)
    /\ LET image_file == image_files[Len(file_date_mapping) + 1]
           image_date == get_image_date(source[image_file], NowDate)
       IN  file_date_mapping' =
               Append(file_date_mapping, [file |-> image_file, date |-> image_date])
    /\ pc' = IF resolve_loop_done(file_date_mapping', image_files)
             THEN "place" ELSE "resolve"
    /\ UNCHANGED <<source, dry_run, move_files, project_names, image_files, idx,
                   date_folder, dest_file, srcFiles, dirs, dstFiles, log, out, error,
                   tree0, probe, resolved>>

\* The entry the second loop is at, and its date key.
Entry == file_date_mapping[idx]
EntryDateStr == strftime_Ymd(date_only_of(Entry.date))

\* Lines 352-356: an entry without a (truthy) label is passed over.
SkipUnmapped ==
    /\ pc = "place"
    /\ idx <= Len(file_date_mapping)
    /\ ~has_label(project_names, EntryDateStr)
    /\ idx' = idx + 1
    /\ UNCHANGED <<pc, source, dry_run, move_files, project_names, image_files,
                   file_date_mapping, date_folder, dest_file, srcFiles, dirs,
                   dstFiles, log, out, error, tree0, probe, resolved>>

\* Line 357, create_date_folder (lines 295-305).  mkdir fails when the root is
\* missing or not writable: the error is logged and raised, which ends the run.
CreateDateFolder ==
    /\ pc = "place"
    /\ idx <= Len(file_date_mapping)
    /\ has_label(project_names, EntryDateStr)
    /\ LET folder == date_folder_name(Entry.date, project_names[EntryDateStr])
       IN  \E mkdir_ok \in BOOLEAN :
             /\ tree0' = Tree(dirs, dstFiles)
             /\ date_folder' = folder
             /\ IF mkdir_ok \/ dry_run \/ folder \in dirs
                THEN /\ dirs' = mkdir_date_folder(dry_run, dirs, folder)
                     /\ log' = Append(log, Record("INFO", "Created/accessed folder",
                                                  0, folder))
                     /\ pc' = "dest"
                     /\ error' = error
                ELSE /\ dirs' = dirs
                     /\ log' = Append(log, Record("ERROR", "Error creating folder",
                                                  0, folder))
                     /\ pc' = "aborted"
                     /\ error' = "OSError"
    /\ UNCHANGED <<source, dry_run, move_files, project_names, image_files,
                   file_date_mapping, idx, dest_file, srcFiles, dstFiles, out,
                   probe, resolved>>

\* Lines 358-363: the destination path, past the paths that exist.
PickDestFile ==
    /\ pc = "dest"
    /\ dest_file' = pick_dest_file(date_folder, source[Entry.file], dstFiles)
    /\ pc' = "copy"
    /\ UNCHANGED <<source, dry_run, move_files, project_names, image_files,
                   file_date_mapping, idx, date_folder, srcFiles, dirs, dstFiles,
                   log, out, error, tree0, probe, resolved>>

\* Line 364, safe_copy_file (lines 223-251), in a dry run.
SafeCopyFileDryRun ==
    /\ pc = "copy"
    /\ dry_run
    /\ log' = Append(log, Record("INFO", IF move_files THEN "Would move" ELSE "Would copy",
                                 Entry.file, dest_file))
    /\ idx' = idx + 1
    /\ pc' = "place"
    /\ UNCHANGED <<source, move_files, dry_run, project_names, image_files,
                   file_date_mapping, date_folder, dest_file, srcFiles, dirs, dstFiles,
                   out, error, tree0, probe, resolved>>

\* Line 364, safe_copy_file (lines 229-251): the two checks, the parent folder,
\* the transfer.  A failed check is logged and raised; group_files does not
\* catch it, so the run ends there.
SafeCopyFile ==
    /\ pc = "copy"
    /\ ~dry_run
    /\ \E dst_free \in 0..MaxFree, writable \in BOOLEAN :
         LET src == Entry.file
             space == has_enough_disk_space(src \in srcFiles, source[src].size,
                                            date_folder \in dirs, dst_free)
             probed == can_write_to_directory(date_folder, date_folder \in dirs,
                                              writable, dstFiles)
         IN  IF ~space
             THEN /\ log' = Append(log, Record("ERROR", "DiskSpaceError", src, dest_file))
                  /\ error' = "DiskSpaceError"
                  /\ pc' = "aborted"
                  /\ UNCHANGED <<idx, srcFiles, dirs, dstFiles>>
             ELSE IF ~probed.ok
             THEN /\ log' = Append(log, Record("ERROR", "PermissionError", src, dest_file))
                  /\ error' = "PermissionError"
                  /\ pc' = "aborted"
                  /\ dstFiles' = probed.files
                  /\ UNCHANGED <<idx, srcFiles, dirs>>
             ELSE /\ dirs' = dirs \cup {date_folder}
                  /\ dstFiles' = write_file(probed.files, dest_file, src)
                  /\ srcFiles' = source_after_transfer(move_files, srcFiles, src)
                  /\ log' = Append(log, Record("INFO", IF move_files THEN "Moved" ELSE "Copied",
                                               src, dest_file))
                  /\ idx' = idx + 1
                  /\ pc' = "place"
                  /\ error' = error
    /\ UNCHANGED <<source, dry_run, move_files, project_names, image_files,
                   file_date_mapping, date_folder, dest_file, out, tree0, probe,
                   resolved>>

\* Line 365: the second loop is over.
Complete ==
    /\ pc = "place"
    /\ idx > Len(file_date_mapping)
    /\ out' = Append(out, "Processing completed")
    /\ pc' = "done"
    /\ UNCHANGED <<source, dry_run, move_files, project_names, image_files,
                   file_date_mapping, idx, date_folder, dest_file, srcFiles, dirs,
                   dstFiles, log, error, tree0, probe, resolved>>

Next ==
    \/ Start
    \/ ResolveDate
    \/ SkipUnmapped
    \/ CreateDateFolder
    \/ PickDestFile
    \/ SafeCopyFile
    \/ SafeCopyFileDryRun
    \/ Complete

\* The group command: Config.default() leaves dry_run off.
Init == InitGroup({FALSE})

NextGroup ==
    \/ Start
    \/ ResolveDate
    \/ SkipUnmapped
    \/ CreateDateFolder
    \/ PickDestFile
    \/ SafeCopyFile
    \/ Complete

Spec == Init /\ [][NextGroup]_vars

\* The placement procedure under any Config, dry_run set or not.
InitConfig == InitGroup(BOOLEAN)

SpecConfig == InitConfig /\ [][Next]_vars

----------------------------------------------------------------------------
(* get_image_date on its own: a driver that hands it one file *)

Garbage == <<"garbage">>
Huge == <<HugeNumber>>

\* Values an EXIF date tag may hold: empty, blank, no date, a number the
\* parser overflows on, two dates.
ExifValues == {<<>>, <<" ">>, Garbage, Huge, ExifText(Day1), ExifText(Day2)}

ExifTagSets == UNION {[S -> ExifValues] : S \in SUBSET {"DateTimeOriginal",
                                                        "DateTimeDigitized", "DateTime"}}

Births == {BirthDate, NoDate}

JpegInputs ==
    {MediaFile("a", suffix, 1, birth, NoRaw,
               [opens |-> TRUE, exif_raises |-> FALSE, tags |-> tags], NoVideo) :
        suffix \in {".jpg"}, birth \in Births, tags \in ExifTagSets}
    \cup
    {MediaFile("a", suffix, 1, birth, NoRaw,
               [opens |-> opens, exif_raises |-> raises, tags |-> NoFiles], NoVideo) :
        suffix \in {".jpg", ".JPG", ".jpeg"}, birth \in Births,
        opens \in BOOLEAN, raises \in BOOLEAN}

\* Values a General-track attribute may hold.
VideoValues ==
    {StrValue(MediaText(Day1)), StrValue(MediaText(Day2)), StrValue(Garbage),
     ListValue(<<MediaText(Day1Late), Garbage>>), ListValue(<<>>)}

VideoFieldNames == {video_fields[i] : i \in 1..Len(video_fields)}

\* General tracks with at most two attributes set.
VideoAttrSets ==
    UNION {[S -> VideoValues] : S \in {T \in SUBSET VideoFieldNames : Cardinality(T) <= 2}}

Track(type, attrs) == [track_type |-> type, attrs |-> attrs]

VideoInputs ==
    {MediaFile("clip", ".mp4", 1, birth, NoRaw, NoImg,
               [parses |-> TRUE, tracks |-> <<Track("Video", NoFiles), Track("General", attrs)>>]) :
        birth \in {BirthDate}, attrs \in VideoAttrSets}
    \cup
    {MediaFile("clip", suffix, 1, birth, NoRaw, NoImg, [parses |-> parses, tracks |-> tracks]) :
        suffix \in {".mov", ".MOV"}, birth \in Births, parses \in BOOLEAN,
        tracks \in {<<>>, <<Track("Video", NoFiles)>>,
                    <<Track("General", NoFiles)>>,
                    <<Track("General", [f \in {"encoded_date"} |-> StrValue(Garbage)])>>}}

RawInputs ==
    {MediaFile("shot", suffix, 1, birth,
               [opens |-> opens, datetime_original |-> dto], NoImg, NoVideo) :
        suffix \in {".raf", ".gpr"}, birth \in Births, opens \in BOOLEAN,
        dto \in {<<>>, Garbage, Huge, ExifText(Day1),
                 <<"2023", "-", "05", "-", "01", " ", "10:00:00">>}}

OtherInputs == {MediaFile("scan", ".png", 1, birth, NoRaw, NoImg, NoVideo) : birth \in Births}

ResolverInputs == JpegInputs \cup VideoInputs \cup RawInputs \cup OtherInputs

InitDate ==
    /\ pc = "call"
    /\ probe \in ResolverInputs
    /\ resolved = NoDate
    /\ source = <<>>
    /\ dry_run = FALSE
    /\ move_files = FALSE
    /\ project_names = NoFiles
    /\ image_files = <<>>
    /\ file_date_mapping = <<>>
    /\ idx = 1
    /\ date_folder = ""
    /\ dest_file = ""
    /\ srcFiles = {}
    /\ dirs = {}
    /\ dstFiles = NoFiles
    /\ log = <<>>
    /\ out = <<>>
    /\ error = ""
    /\ tree0 = Tree({}, NoFiles)

\* image_date = get_image_date(image_file)
CallGetImageDate ==
    /\ pc = "call"
    /\ resolved' = get_image_date(probe, NowDate)
    /\ pc' = "returned"
    /\ UNCHANGED <<probe, source, dry_run, move_files, project_names, image_files,
                   file_date_mapping, idx, date_folder, dest_file, srcFiles, dirs,
                   dstFiles, log, out, error, tree0>>

NextDate == CallGetImageDate

SpecDate == InitDate /\ [][NextDate]_vars

----------------------------------------------------------------------------
(* Vocabulary of the properties *)

\* A log record of a transfer that took place.
IsPlacement(r) == r.msg \in {"Copied", "Moved"}

Placements == {i \in DOMAIN log : IsPlacement(log[i])}

\* A log record of a failed pre-flight check.
IsCheckFailure(r) == r.level = "ERROR" /\ r.msg \in {"DiskSpaceError", "PermissionError"}

\* The date key of a resolved file, computed from its resolved date.
DateKeyOf(k) == file_date_mapping[k].date.y \o file_date_mapping[k].date.m
                    \o file_date_mapping[k].date.d

\* The entries of file_date_mapping the second loop has gone past.
Processed == 1..(idx - 1)

\* The entry of a file in file_date_mapping.
EntryOf(f) == CHOOSE k \in DOMAIN file_date_mapping : file_date_mapping[k].file = f

\* The n-th candidate path of a file in a folder; 0 is the unsuffixed one.
CandidatePath(folder, f, n) ==
    IF n = 0 THEN folder \o "/" \o folder \o "_" \o source[f].stem \o source[f].suffix
    ELSE folder \o "/" \o folder \o "_" \o source[f].stem \o "_" \o ToString(n)
             \o source[f].suffix

\* The placement phase has taken its first step.
PlacementBegun == log # <<>> \/ pc \in {"dest", "copy"} \/ idx > 1 \/ dirs # tree0.dirs

----------------------------------------------------------------------------
(* C1 *)

----------------------------------------------------------------------------
(* C2 *)

\* C2: when a file's placement fails with an insufficient-space or
\* permission-denied error, only that file is skipped: the run does not end
\* before it has gone through every remaining file and emitted the completion
\* message.
C2_FailureSkipsOnlyThatFile ==
    (\E i \in DOMAIN log : IsCheckFailure(log[i]))
        => (pc \in {"done", "aborted"}
              => /\ pc = "done"
                 /\ idx > Len(file_date_mapping)
                 /\ out = <<"Processing completed">>)

----------------------------------------------------------------------------
(* C3 *)

\* C3: when the free-space or the writability check fails, a DiskSpaceError
\* or PermissionError is raised and the destination tree is what it was
\* before that file's placement began: no new date folder, no probe file, no
\* partly written file.
C3_FailedCheckLeavesTreeUntouched ==
    error \in {"DiskSpaceError", "PermissionError"}
        => /\ IsCheckFailure(log[Len(log)])
           /\ Tree(dirs, dstFiles) = tree0

----------------------------------------------------------------------------
(* C4 *)

\* C4: with the dry-run flag set, no step creates a directory, a probe file
\* or a destination file, nor removes a source file, and every file that went
\* through create_date_folder and safe_copy_file has one log record of the
\* intended copy or move.
C4_DryRunChangesNothing ==
    /\ [][dry_run => /\ dirs' = dirs
                     /\ dstFiles' = dstFiles
                     /\ srcFiles' = srcFiles]_vars
    /\ [](dry_run =>
            \A k \in Processed :
                LET would == {i \in DOMAIN log : /\ log[i].src = file_date_mapping[k].file
                                                 /\ log[i].msg \in {"Would move", "Would copy"}}
                IN  IF DateKeyOf(k) \in DOMAIN project_names /\ project_names[DateKeyOf(k)] # ""
                    THEN /\ Cardinality(would) = 1
                         /\ \A i \in would :
                              log[i].msg = IF move_files THEN "Would move" ELSE "Would copy"
                    ELSE would = {})

\* C4 witness: a dry run that ended after logging an intended transfer into a
\* folder the destination does not hold.
C4_Witness ==
    /\ dry_run
    /\ pc = "done"
    /\ \E i \in DOMAIN log : log[i].msg = "Would move" /\ date_folder \notin dirs

----------------------------------------------------------------------------
(* C5 *)

\* The paths of the destination that hold the content of source file f.
HeldAt(f) == {p \in DOMAIN dstFiles : dstFiles[p] = f}

\* File f is in the destination, in the folder of the given name only.
PlacedInFolder(f, folder) ==
    /\ HeldAt(f) # {}
    /\ \A p \in HeldAt(f) : \E n \in 0..(NumFiles + 1) : p = CandidatePath(folder, f, n)

\* C5 as stated: in a run that completed, a discovered file is placed if and
\* only if the mapping has an entry for its date key, whatever label the entry
\* holds, and it is placed into the folder DateKey_label.
C5_PlacedIffKeyInMapping ==
    pc = "done" =>
        /\ out = <<"Processing completed">>
        /\ \A k \in DOMAIN file_date_mapping :
             IF DateKeyOf(k) \in DOMAIN project_names
             THEN PlacedInFolder(file_date_mapping[k].file,
                                 DateKeyOf(k) \o "_" \o project_names[DateKeyOf(k)])
             ELSE HeldAt(file_date_mapping[k].file) = {}

\* C5 amended: in a run that completed, a discovered file is placed if and only
\* if the mapping has an entry for its date key with a non-empty label; it is
\* then placed into the folder DateKey_label, and otherwise left unplaced with
\* no error, the run reporting completion.
C5_PlacedIffNonEmptyLabel ==
    pc = "done" =>
        /\ out = <<"Processing completed">>
        /\ error = ""
        /\ \A i \in DOMAIN log : log[i].level # "ERROR"
        /\ \A k \in DOMAIN file_date_mapping :
             IF DateKeyOf(k) \in DOMAIN project_names /\ project_names[DateKeyOf(k)] # ""
             THEN PlacedInFolder(file_date_mapping[k].file,
                                 DateKeyOf(k) \o "_" \o project_names[DateKeyOf(k)])
             ELSE HeldAt(file_date_mapping[k].file) = {}

\* C5 witness: a completed run that placed one file, left one unplaced whose
\* date key is missing from the mapping, the other key being mapped.
C5_Witness ==
    /\ pc = "done"
    /\ \E k \in DOMAIN file_date_mapping : HeldAt(file_date_mapping[k].file) # {}
    /\ \E k \in DOMAIN file_date_mapping :
         /\ DateKeyOf(k) \notin DOMAIN project_names
         /\ HeldAt(file_date_mapping[k].file) = {}

----------------------------------------------------------------------------
(* C6 *)

\* An extractor of the file's family produced a date.
ExtractionSucceeds(file) ==
    \/ /\ lower(file.suffix) \in RawExtensions
       /\ file.raw.opens
       /\ file.raw.datetime_original # <<>>
       /\ parse(file.raw.datetime_original).ok
    \/ /\ lower(file.suffix) \in JpegExtensions
       /\ file.img.opens
       /\ get_exif_date(file.img).found
    \/ /\ lower(file.suffix) \in VideoExtensions
       /\ file.video.parses
       /\ video_scan_tracks(file.video.tracks).found

\* C6: for a file of any family, when no extraction of embedded metadata
\* succeeds (the container not opening included), get_image_date returns the
\* filesystem creation timestamp, and the current time only when that
\* timestamp is unavailable.
C6_FallbackIsCreationTime ==
    (pc = "returned" /\ ~ExtractionSucceeds(probe))
        => resolved = IF probe.birth # NoDate THEN probe.birth ELSE NowDate

----------------------------------------------------------------------------
(* C7 *)

\* A tag qualifies when it is present, non-empty after trimming, and its text
\* parses once the two colons of the date part are spaces.
ExifQualifies(tags, field) ==
    /\ field \in DOMAIN tags
    /\ tags[field] # <<>>
    /\ strip(tags[field]) # <<>>
    /\ parse(replace_colons(tags[field], 2)).ok

ExifPriority == <<"DateTimeOriginal", "DateTimeDigitized", "DateTime">>

\* C7: for a still image whose EXIF can be read, the date returned is that of
\* the first of DateTimeOriginal, DateTimeDigitized, DateTime that qualifies;
\* a tag that is absent, empty or unparseable is passed over.
C7_FirstQualifyingExifField ==
    (/\ pc = "returned"
     /\ lower(probe.suffix) \in JpegExtensions
     /\ probe.img.opens
     /\ ~probe.img.exif_raises)
        => \A i \in 1..3 :
             (/\ ExifQualifies(probe.img.tags, ExifPriority[i])
              /\ \A j \in 1..(i - 1) : ~ExifQualifies(probe.img.tags, ExifPriority[j]))
             => resolved = parse(replace_colons(probe.img.tags[ExifPriority[i]], 2)).date

----------------------------------------------------------------------------
(* C8 *)

\* The date a General-track attribute yields: its first element when it is a
\* list, parsed.
VideoFieldDate(attrs, field) ==
    IF field \in DOMAIN attrs /\ truthy(attrs[field])
    THEN parse(attrs[field].items[1])
    ELSE [ok |-> FALSE, exc |-> "", date |-> NoDate]

\* The date of the first field of an order that parses, if any does.
FirstParsed(attrs, order, result) ==
    \A i \in 1..Len(order) :
        (/\ VideoFieldDate(attrs, order[i]).ok
         /\ \A j \in 1..(i - 1) : ~VideoFieldDate(attrs, order[j]).ok)
        => result = VideoFieldDate(attrs, order[i]).date

\* The General track of the driver's file, when it is a video that parsed and
\* whose last track is the General one.
ProbeIsVideo ==
    /\ pc = "returned"
    /\ lower(probe.suffix) \in VideoExtensions
    /\ probe.video.parses
    /\ probe.video.tracks # <<>>
    /\ probe.video.tracks[Len(probe.video.tracks)].track_type = "General"

ProbeAttrs == probe.video.tracks[Len(probe.video.tracks)].attrs

\* The order C8 states: both file-modification variants before any
\* file-creation variant.
OrderAsStated ==
    <<"encoded_date", "tagged_date", "file_last_modification_date",
      "file_last_modification_date__local", "file_creation_date",
      "file_creation_date__local">>

\* The order the code goes through.
OrderAsCoded ==
    <<"encoded_date", "tagged_date", "file_last_modification_date",
      "file_creation_date", "file_last_modification_date__local",
      "file_creation_date__local", "other_file_creation_date",
      "other_file_last_modification_date">>

\* C8 as stated: for a video, the first of encoded date, tagged date,
\* file-modification date (UTC, local), file-creation date (UTC, local) that
\* parses is returned, a list giving its first element.
C8_VideoOrderAsStated ==
    ProbeIsVideo => FirstParsed(ProbeAttrs, OrderAsStated, resolved)

\* C8 amended: the order is encoded date, tagged date, file-modification date
\* (UTC), file-creation date (UTC), file-modification date (local),
\* file-creation date (local), then the two other_file_* fields; the first
\* that parses is returned, a list giving its first element, so a valid
\* encoded date is chosen over a file-creation date.
C8_VideoOrderAsCoded ==
    ProbeIsVideo =>
        /\ FirstParsed(ProbeAttrs, OrderAsCoded, resolved)
        /\ VideoFieldDate(ProbeAttrs, "encoded_date").ok
             => resolved = VideoFieldDate(ProbeAttrs, "encoded_date").date

\* C8 witness: a video with a valid encoded date and another valid
\* file-creation date, resolved to the encoded date.
C8_Witness ==
    /\ ProbeIsVideo
    /\ VideoFieldDate(ProbeAttrs, "encoded_date").ok
    /\ VideoFieldDate(ProbeAttrs, "file_creation_date").ok
    /\ VideoFieldDate(ProbeAttrs, "file_creation_date").date
         # VideoFieldDate(ProbeAttrs, "encoded_date").date
    /\ resolved = VideoFieldDate(ProbeAttrs, "encoded_date").date

----------------------------------------------------------------------------
(* C9 *)

\* C9: after a placement in copy mode the source file is still at its path
\* and its copy is at the destination path; after one in move mode the file is
\* at the destination path and no longer at its source path; a file passed
\* over for want of a mapping entry stays at its source path.
C9_CopyKeepsMoveRemoves ==
    /\ \A i \in Placements :
         /\ log[i].msg = (IF move_files THEN "Moved" ELSE "Copied")
         /\ log[i].dst \in DOMAIN dstFiles
         /\ dstFiles[log[i].dst] = log[i].src
         /\ (log[i].src \in srcFiles) = ~move_files
    /\ \A k \in Processed :
         DateKeyOf(k) \notin DOMAIN project_names
             => /\ file_date_mapping[k].file \in srcFiles
                /\ HeldAt(file_date_mapping[k].file) = {}

\* C9 witness: a completed copy run that placed one file and passed over
\* another.
C9_Witness ==
    /\ pc = "done"
    /\ ~move_files
    /\ \E i \in Placements : log[i].src \in srcFiles
    /\ \E k \in Processed : DateKeyOf(k) \notin DOMAIN project_names

----------------------------------------------------------------------------
(* C10 *)

\* C10: a group run is two-phase: once the first placement step has happened
\* the mapping is loaded and stays as it is, the date of every discovered file
\* is resolved, and no date is resolved any more.
C10_TwoPhase ==
    /\ [](PlacementBegun => /\ pc # "start"
                            /\ Len(file_date_mapping) = Len(image_files))
    /\ [][PlacementBegun => /\ file_date_mapping' = file_date_mapping
                            /\ project_names' = project_names]_vars
    /\ [][file_date_mapping' # file_date_mapping => ~PlacementBegun']_vars

\* C10 witness: the first file has been placed and a second one is in line.
C10_Witness ==
    /\ pc = "place"
    /\ Placements # {}
    /\ idx <= Len(file_date_mapping)

====
